---- MODULE Spec2Model ----
(***************************************************************************)
(* The registration form of src/src/RegisterForm.jsx as a state machine.   *)
(*                                                                         *)
(* The component holds two pieces of React state, isRegistered and         *)
(* formData, and renders either the form or the confirmation message.      *)
(* Text values are finite sequences of characters.  Two specifications are *)
(* given over the same state:                                              *)
(*   Spec         the events a user can raise through the rendered         *)
(*                controls, with the browser's constraint validation;      *)
(*   SpecHarness  the two handlers called directly (updateField, submit),  *)
(*                in any state and with no validation.                     *)
(* handleChange is one step (updater plus re-render).  handleSubmit is     *)
(* followed statement by statement (pc), and no other event is handled     *)
(* until it has returned and React has re-rendered.                        *)
(***************************************************************************)
EXTENDS Naturals, Sequences, FiniteSets

VARIABLES
    isRegistered,      \* useState(false), the value committed by the last render
    formData,          \* useState({username, email, password}), committed value
    view,              \* what the last render returned
    closure,           \* formData as captured by the handleSubmit of the last form render
    pc,                \* position inside handleSubmit, "idle" between events
    defaultPrevented,  \* the submit event's defaultPrevented flag
    queue,             \* setIsRegistered updates queued until the next render
    log,               \* records written by console.log, oldest first
    lastCall,          \* history: per field, the value of the last change event naming it
    reloaded           \* history: the browser performed the default form submission

vars == <<isRegistered, formData, view, closure, pc, defaultPrevented, queue,
          log, lastCall, reloaded>>

\* ---------------------------------------------------------------- bounds
MaxLen == 3
MaxSubmits == 2

\* ---------------------------------------------------------------- values
Alphabet == {"a", "@"}

Text == UNION {[1..k -> Alphabet] : k \in 0..MaxLen}

EmptyText == <<>>

\* What reading a missing property of a JavaScript object gives.
Undefined == <<"undefined">>

FieldNames == {"username", "email", "password"}

InitialFormData == [n \in FieldNames |-> EmptyText]

ConfirmationText == "Registration successful! Welcome aboard!"

\* Values a direct caller of the handlers passes: empty, plain, an address.
TestValues == {EmptyText, <<"a">>, <<"a", "@", "a">>}

Get(obj, key) == IF key \in DOMAIN obj THEN obj[key] ELSE Undefined

\* ---------------------------------------------------------------- handleChange
\* Faulty variant: the key written literally instead of computed ({...prevData, name: value}).
SetFormDataUpdaterLiteralKey(prevData, name, value) ==
    [k \in DOMAIN prevData \cup {"name"} |->
        IF k = "name" THEN value ELSE prevData[k]]

\* Faulty variant: the spread of the previous record forgotten ({[name]: value}).
SetFormDataUpdaterNoSpread(prevData, name, value) ==
    [k \in {name} |-> value]

\* (prevData) => ({...prevData, [name]: value})
SetFormDataUpdater(prevData, name, value) ==
    [k \in DOMAIN prevData \cup {name} |->
        IF k = name THEN value ELSE prevData[k]]

\* ---------------------------------------------------------------- render
InputType == [n \in FieldNames |->
                 IF n = "email" THEN "email"
                 ELSE IF n = "password" THEN "password" ELSE "text"]

FormInputs(fd) ==
    [n \in FieldNames |->
        [type |-> InputType[n], placeholder |-> n,
         value |-> Get(fd, n), required |-> TRUE]]

Message == [kind |-> "message", text |-> ConfirmationText]

\* Faulty variant: the early return removed, the form is rendered whatever isRegistered.
RegisterFormNoEarlyReturn(registered, fd) ==
    [kind |-> "form", inputs |-> FormInputs(fd), button |-> "Register"]

\* Faulty variant: every input bound to formData.username.
RegisterFormWrongBinding(registered, fd) ==
    IF registered
    THEN Message
    ELSE [kind |-> "form",
          inputs |-> [n \in FieldNames |->
                         [type |-> InputType[n], placeholder |-> n,
                          value |-> Get(fd, "username"), required |-> TRUE]],
          button |-> "Register"]

\* The component function: what a render with this state returns.
RegisterForm(registered, fd) ==
    IF registered
    THEN Message
    ELSE [kind |-> "form", inputs |-> FormInputs(fd), button |-> "Register"]

\* Faulty variant: handleSubmit memoised once, it keeps the formData of the first render.
SubmitClosureStale(registered, fd, old) == old

\* The formData that the live handleSubmit closes over after a render: a render
\* that returns early creates no handler, the previous one stays.
SubmitClosure(registered, fd, old) == IF registered THEN old ELSE fd

\* ---------------------------------------------------------------- validation
\* type="email": one "@", with characters before and after it.
IsEmail(v) ==
    \E p \in 2..(Len(v) - 1) :
        /\ v[p] = "@"
        /\ \A q \in (1..Len(v)) \ {p} : v[q] # "@"

InputValid(input) ==
    /\ input.required => input.value # EmptyText
    /\ (input.type = "email" /\ input.value # EmptyText) => IsEmail(input.value)

\* Faulty variant: the form rendered with noValidate, nothing is checked.
checkValidityNoValidate(inputs) == TRUE

\* The browser's constraint validation of the form's controls before it
\* dispatches the submit event.
checkValidity(inputs) == \A n \in DOMAIN inputs : InputValid(inputs[n])

\* ---------------------------------------------------------------- initial state
Init ==
    /\ isRegistered = FALSE
    /\ formData = InitialFormData
    /\ view = RegisterForm(FALSE, InitialFormData)
    /\ closure = InitialFormData
    /\ pc = "idle"
    /\ defaultPrevented = FALSE
    /\ queue = <<>>
    /\ log = <<>>
    /\ lastCall = InitialFormData
    /\ reloaded = FALSE

\* ---------------------------------------------------------------- actions
\* handleChange with e.target = {name, value}, and the render that follows.
handleChange(name, value) ==
    /\ pc = "idle"
    /\ formData' = SetFormDataUpdater(formData, name, value)
    /\ view' = RegisterForm(isRegistered, formData')
    /\ closure' = SubmitClosure(isRegistered, formData', closure)
    /\ lastCall' = [lastCall EXCEPT ![name] = value]
    /\ UNCHANGED <<isRegistered, pc, defaultPrevented, queue, log, reloaded>>

\* A change event of one of the rendered inputs.
InputChange ==
    /\ view.kind = "form"
    /\ \E n \in DOMAIN view.inputs, v \in Text : handleChange(n, v)

\* The Register button: validation, then the submit event reaches handleSubmit.
ClickRegister ==
    /\ pc = "idle"
    /\ view.kind = "form"
    /\ checkValidity(view.inputs)
    /\ pc' = "L24"
    /\ defaultPrevented' = FALSE
    /\ UNCHANGED <<isRegistered, formData, view, closure, queue, log, lastCall,
                   reloaded>>

\* updateField(name, value) called directly.
CallUpdateField ==
    \E n \in FieldNames, v \in TestValues : handleChange(n, v)

\* submit() called directly: the last handleSubmit created, no validation.
CallSubmit ==
    /\ pc = "idle"
    /\ Len(log) < MaxSubmits
    /\ pc' = "L24"
    /\ defaultPrevented' = FALSE
    /\ UNCHANGED <<isRegistered, formData, view, closure, queue, log, lastCall,
                   reloaded>>

\* Faulty variant: the call of e.preventDefault() left out.
preventDefaultOmitted ==
    /\ pc = "L24"
    /\ pc' = "L26"
    /\ UNCHANGED <<isRegistered, formData, view, closure, defaultPrevented,
                   queue, log, lastCall, reloaded>>

\* e.preventDefault();
preventDefault ==
    /\ pc = "L24"
    /\ defaultPrevented' = TRUE
    /\ pc' = "L26"
    /\ UNCHANGED <<isRegistered, formData, view, closure, queue, log, lastCall,
                   reloaded>>

\* console.log("Form submitted with:", formData);
consoleLog ==
    /\ pc = "L26"
    /\ log' = Append(log, closure)
    /\ pc' = "L27"
    /\ UNCHANGED <<isRegistered, formData, view, closure, defaultPrevented,
                   queue, lastCall, reloaded>>

\* Faulty variant: setIsRegistered(!isRegistered).
setIsRegisteredToggle ==
    /\ pc = "L27"
    /\ queue' = Append(queue, ~isRegistered)
    /\ pc' = "return"
    /\ UNCHANGED <<isRegistered, formData, view, closure, defaultPrevented,
                   log, lastCall, reloaded>>

\* Faulty variant: the call of setIsRegistered left out.
setIsRegisteredOmitted ==
    /\ pc = "L27"
    /\ pc' = "return"
    /\ UNCHANGED <<isRegistered, formData, view, closure, defaultPrevented,
                   queue, log, lastCall, reloaded>>

\* Faulty variant: the form is cleared on submission (setFormData of the initial record).
setIsRegisteredAndClear ==
    /\ pc = "L27"
    /\ queue' = Append(queue, TRUE)
    /\ formData' = InitialFormData
    /\ pc' = "return"
    /\ UNCHANGED <<isRegistered, view, closure, defaultPrevented, log,
                   lastCall, reloaded>>

\* setIsRegistered(true);
setIsRegistered ==
    /\ pc = "L27"
    /\ queue' = Append(queue, TRUE)
    /\ pc' = "return"
    /\ UNCHANGED <<isRegistered, formData, view, closure, defaultPrevented,
                   log, lastCall, reloaded>>

\* handleSubmit returns: React applies the queued update and renders; then the
\* browser performs the submission's default action unless it was prevented,
\* which loads the page anew.
handleSubmitReturn ==
    /\ pc = "return"
    /\ pc' = "idle"
    /\ queue' = <<>>
    /\ IF defaultPrevented
       THEN /\ isRegistered' = IF queue = <<>> THEN isRegistered
                               ELSE queue[Len(queue)]
            /\ view' = RegisterForm(isRegistered', formData)
            /\ closure' = SubmitClosure(isRegistered', formData, closure)
            /\ UNCHANGED <<formData, defaultPrevented, log, lastCall, reloaded>>
       ELSE /\ isRegistered' = FALSE
            /\ formData' = InitialFormData
            /\ view' = RegisterForm(FALSE, InitialFormData)
            /\ closure' = InitialFormData
            /\ lastCall' = InitialFormData
            /\ reloaded' = TRUE
            /\ UNCHANGED <<defaultPrevented, log>>

\* ---------------------------------------------------------------- specifications
Next ==
    \/ InputChange
    \/ ClickRegister
    \/ preventDefault
    \/ consoleLog
    \/ setIsRegistered
    \/ handleSubmitReturn

Spec == Init /\ [][Next]_vars

NextHarness ==
    \/ CallUpdateField
    \/ CallSubmit
    \/ preventDefault
    \/ consoleLog
    \/ setIsRegistered
    \/ handleSubmitReturn

SpecHarness == Init /\ [][NextHarness]_vars

\* ---------------------------------------------------------------- properties
AllFilled(fd) == \A n \in FieldNames : Get(fd, n) # EmptyText

InSubmit == pc # "idle"

\* C1: the registration flag starts false, only the return of handleSubmit
\* changes it, and once it is true it is true in every later state, whatever
\* sequence of updateField and submit calls follows.
C1_RegisteredOneWay ==
    /\ ~isRegistered
    /\ [][/\ isRegistered => isRegistered'
          /\ isRegistered' # isRegistered => (pc = "return" /\ queue # <<>>)]_vars

\* Registered, then a field updated and submit called a second time.
C1_Witness ==
    /\ isRegistered
    /\ Len(log) = 2
    /\ formData # closure

\* C2: a change event naming one of the three fields, with any text value,
\* leaves the named field holding that value, the other two fields as they
\* were, and isRegistered as it was.  (lastCall'[n] is the value the event
\* naming n carried, so the steps handleChange(n, lastCall'[n]) are all the
\* steps handleChange(n, v).)
C2_UpdateFieldLocal ==
    [][\A n \in FieldNames :
          handleChange(n, lastCall'[n]) =>
              /\ DOMAIN formData' = FieldNames
              /\ Get(formData', n) = lastCall'[n]
              /\ \A m \in FieldNames \ {n} : Get(formData', m) = Get(formData, m)
              /\ isRegistered' = isRegistered]_vars

\* The email set, then the username, the password still empty.
C2_Witness ==
    /\ formData = [username |-> <<"a">>, email |-> <<"a", "@", "a">>,
                   password |-> EmptyText]
    /\ lastCall = formData
    /\ ~isRegistered

\* C3: the view depends on isRegistered alone: when it is true the view is
\* exactly the confirmation message, whatever formData holds; when it is false
\* the view is the form, its three inputs showing the current username, email
\* and password, with the Register button and no confirmation text.
C3_ViewFollowsFlag ==
    /\ isRegistered => view = [kind |-> "message", text |-> ConfirmationText]
    /\ ~isRegistered =>
          /\ view.kind = "form"
          /\ DOMAIN view.inputs = FieldNames
          /\ \A n \in FieldNames : view.inputs[n].value = Get(formData, n)
          /\ view.button = "Register"
          /\ "text" \notin DOMAIN view

\* Registered although no field was ever filled: the message alone is shown.
C3_Witness ==
    /\ isRegistered
    /\ formData = InitialFormData
    /\ view.kind = "message"

\* C4: each field holds the value of the last change event that named it, or
\* the empty text when none did; and once a submit call has returned,
\* isRegistered is true and the view is the confirmation message.
C4_LastWriteThenSubmit ==
    /\ DOMAIN formData = FieldNames
    /\ \A n \in FieldNames : Get(formData, n) = lastCall[n]
    /\ (pc = "idle" /\ log # <<>>) => (isRegistered /\ view = Message)

\* Two fields set, the third never named, then submitted.
C4_Witness ==
    /\ isRegistered
    /\ pc = "idle"
    /\ Len(log) = 1
    /\ formData = [username |-> <<"a">>, email |-> <<"a", "@", "a">>,
                   password |-> EmptyText]

\* C5: no step of handleSubmit, in a first or in a repeated call, changes
\* formData, and a call made when isRegistered is true leaves it true.
C5_SubmitIdempotent ==
    [][(pc # "idle" \/ pc' # "idle") =>
          /\ formData' = formData
          /\ isRegistered => isRegistered']_vars

\* A second submit call has returned.
C5_Witness ==
    /\ isRegistered
    /\ Len(log) = 2
    /\ pc = "idle"

\* C6: through the form's controls the submit event is raised only when
\* username, email and password are all non-empty, so isRegistered implies
\* that the three fields are non-empty.
C6_RequiredBeforeSubmit ==
    /\ InSubmit => AllFilled(formData)
    /\ isRegistered => AllFilled(formData)

\* Registered through the Register button.
C6_Witness ==
    /\ isRegistered
    /\ AllFilled(formData)
    /\ log # <<>>

\* C7: through the rendered inputs formData always has exactly the keys
\* username, email and password; while the form is shown it has an input for
\* each of them, and the update for each name and value gives a record with
\* exactly those keys again.
C7_FieldNamesFixed ==
    /\ DOMAIN formData = FieldNames
    /\ view.kind = "form" => DOMAIN view.inputs = FieldNames
    /\ \A n \in FieldNames, v \in Text :
          DOMAIN SetFormDataUpdater(formData, n, v) = FieldNames

\* Editing, every field changed at least once.
C7_Witness ==
    /\ ~isRegistered
    /\ view.kind = "form"
    /\ \A n \in FieldNames : formData[n] = <<"@">>

\* C8: inside handleSubmit the default action is prevented before the log is
\* written and before the state update is queued, and no submission makes the
\* browser load the page anew.
C8_PreventDefaultFirst ==
    /\ pc \in {"L26", "L27", "return"} => defaultPrevented
    /\ queue # <<>> => defaultPrevented
    /\ ~reloaded

\* The update is queued, the default action already prevented.
C8_Witness ==
    /\ pc = "return"
    /\ queue = <<TRUE>>
    /\ defaultPrevented

\* C9: once isRegistered is true no event of the form is handled any more:
\* every later step leaves formData, the handler position and the flag as
\* they are.
C9_InertAfterRegistration ==
    [][isRegistered =>
          /\ formData' = formData
          /\ pc' = "idle"
          /\ log' = log
          /\ isRegistered']_vars

\* Registered, the confirmation shown, the fields as they were submitted.
C9_Witness ==
    /\ isRegistered
    /\ view = Message
    /\ pc = "idle"
    /\ formData.username = <<"a", "a">>

\* C10: the log is written at most once, it is written once isRegistered is
\* true and not before a submission, and the record written is the formData
\* at the submission, with every earlier change in it.
C10_LogIsCurrentRecord ==
    /\ Len(log) <= 1
    /\ isRegistered => Len(log) = 1
    /\ (~isRegistered /\ pc \in {"idle", "L24", "L26"}) => log = <<>>
    /\ log # <<>> => log[1] = formData

\* The record logged differs from the initial one.
C10_Witness ==
    /\ Len(log) = 1
    /\ log[1] = lastCall
    /\ log[1] # InitialFormData

====
